---- MODULE Spec2Model ----
(***************************************************************************)
(* Materialize MCP server (src/server.py).                                 *)
(*                                                                         *)
(* Text is modelled as a sequence of string tokens, so that the formatting *)
(* the program does (joins, f-strings, generated source text) and the      *)
(* parsing it relies on (exec of the generated source) are computed and    *)
(* not assumed.                                                            *)
(***************************************************************************)
EXTENDS Integers, Sequences, FiniteSets, TLC

VARIABLES
    db,        \* rows the database answers SHOW INDEXES with (environment)
    pc,        \* position of main(): start, gi_fetch, gi_close, registering, serving, raised
    exc,       \* the exception that ended main(), "" while none
    gconn,     \* get_indexes' local `conn` (0: unbound)
    rows,      \* get_indexes' local `rows`
    indexes,   \* register_resources' local `indexes`
    idx,       \* iteration of the `for index in indexes` loop (1-based)
    table,     \* the MCP server's registration table: template -> handler
    log,       \* lines printed by register_resources (the template of each)
    conns,     \* every connection asyncpg.connect has returned, in order
    calls      \* one record per lookup invocation (the handler's frame)

vars == <<db, pc, exc, gconn, rows, indexes, idx, table, log, conns, calls>>

\* ------------------------------------------------------------------ bounds

MaxIndexes == 2
MaxKeys == 2
MaxCalls == 2

\* ------------------------------------------------------------ input domains

Subjects == {"customers", "orders"}
Names == {"customer_id", "order_id", "values", "class"}
Values == {"v1", "v2"}

\* Words exec() refuses as a parameter name.
PyKeywords == {"class"}

Injective(s) == \A i, j \in 1..Len(s) : i # j => s[i] # s[j]

KeyLists ==
    {ks \in UNION {[1..n -> Names] : n \in 1..MaxKeys} : Injective(ks)}

\* A row of SHOW INDEXES: the indexed object and its key columns
CatalogRows == [on : Subjects, key : KeyLists]

\* Rows of single-column indexes
SingleColumnRows == [on : Subjects, key : {<<"customer_id">>, <<"class">>}]

\* What SHOW INDEXES may answer: up to MaxIndexes single-column indexes
Catalogs == UNION {[1..n -> SingleColumnRows] : n \in 0..MaxIndexes}

\* What SHOW INDEXES may answer: one index, of any key list
OneIndexCatalogs == {<<r>> : r \in CatalogRows}

\* --------------------------------------------------------------- text

RECURSIVE Join(_, _)
\* sep.join(parts): parts is a sequence of texts
Join(parts, sep) ==
    IF Len(parts) = 0 THEN <<>>
    ELSE IF Len(parts) = 1 THEN parts[1]
    ELSE parts[1] \o sep \o Join(Tail(parts), sep)

Reverse(s) == [i \in 1..Len(s) |-> s[Len(s) + 1 - i]]

\* ------------------------------------------------------- IndexInfo (28-31)

IndexInfo(row) == [on |-> row.on, keys |-> row.key]

\* --------------------------------------------- register_resources, line 110

TemplateReversed(index) ==
    <<"materialize://", index.on, "/">>
        \o Join([i \in 1..Len(index.keys) |-> <<"{", Reverse(index.keys)[i], "}">>], <<"/">>)

Template(index) ==
    <<"materialize://", index.on, "/">>
        \o Join([i \in 1..Len(index.keys) |-> <<"{", index.keys[i], "}">>], <<"/">>)

\* ------------------------------------------ generate_lookup_handler (55-95)

ParamListReversed(index_columns) ==
    Join([i \in 1..Len(index_columns) |-> <<Reverse(index_columns)[i]>>], <<", ">>)

\* line 69: ", ".join(index_columns)
ParamList(index_columns) ==
    Join([i \in 1..Len(index_columns) |-> <<index_columns[i]>>], <<", ">>)

\* One generated statement: op, the name it works on, and a text.
Stmt(op, a, b) == [op |-> op, a |-> a, b |-> b]

\* lines 78-80: the two statements generated for column i
ColumnStmts(index_columns, i) ==
    << Stmt("append_text", "conditions", <<index_columns[i], " = $", ToString(i)>>),
       Stmt("append_name", "values", <<index_columns[i]>>) >>

RECURSIVE LoopStmts(_, _)
LoopStmts(index_columns, i) ==
    IF i > Len(index_columns) THEN <<>>
    ELSE ColumnStmts(index_columns, i) \o LoopStmts(index_columns, i + 1)

\* lines 74-81: the generated source, up to its first await
FuncCode(view_name, index_columns) ==
    [ header |-> <<"async def handler(">> \o ParamList(index_columns) \o <<"):">>,
      body   |-> << Stmt("newlist", "conditions", <<>>),
                    Stmt("newlist", "values", <<>>) >>
                 \o LoopStmts(index_columns, 1)
                 \o << Stmt("query", "conditions", <<"SELECT * FROM ", view_name, " WHERE ">>) >> ]

\* exec (line 92) parses the header: the names between "(" and ")", split at ", "
ParseParams(header) ==
    LET inner == SubSeq(header, 2, Len(header) - 1)
    IN  [i \in 1..((Len(inner) + 1) \div 2) |-> inner[2 * i - 1]]

\* exec raises SyntaxError for a keyword or a repeated parameter name
Compiles(func_code) ==
    LET ps == ParseParams(func_code.header)
    IN  /\ \A i \in 1..Len(ps) : ps[i] \notin PyKeywords
        /\ Injective(ps)

\* lines 91-95: the function object exec leaves in local_vars; `id` is the
\* object's identity (the catalog position of the descriptor it was built from)
HandlerFunc(func_code, id) ==
    [id |-> id, params |-> ParseParams(func_code.header), body |-> func_code.body]

\* ------------------------------------------ the generated handler, running

LocalNames == Names \cup {"conditions", "values"}
ListRefs == {"@conditions", "@values"}
Ref(name) == "@" \o name

\* The frame at call time: parameters bound positionally, nothing else bound.
BindArgs(params, args) ==
    [ locals |-> [n \in LocalNames |->
                    IF \E k \in 1..Len(params) : params[k] = n
                    THEN args[CHOOSE k \in 1..Len(params) : params[k] = n]
                    ELSE ""],
      heap   |-> [r \in ListRefs |-> <<>>],
      query  |-> <<>> ]

\* One statement of the generated body (lines 76-81)
ExecStmt(f, s) ==
    CASE s.op = "newlist" ->
           \* conditions = [] / values = []: a new list object bound to the name
           [f EXCEPT !.locals[s.a] = Ref(s.a), !.heap[Ref(s.a)] = <<>>]
      [] s.op = "append_text" ->
           \* conditions.append(f"col = $i")
           [f EXCEPT !.heap[f.locals[s.a]] = Append(@, s.b)]
      [] s.op = "append_name" ->
           \* values.append(col): the object the name col is bound to now
           [f EXCEPT !.heap[f.locals[s.a]] = Append(@, <<f.locals[s.b[1]]>>)]
      [] s.op = "query" ->
           \* query = f"SELECT * FROM view WHERE " + " AND ".join(conditions)
           [f EXCEPT !.query = s.b \o Join(f.heap[f.locals[s.a]], <<" AND ">>)]

RECURSIVE ExecBody(_, _)
ExecBody(f, body) ==
    IF Len(body) = 0 THEN f ELSE ExecBody(ExecStmt(f, body[1]), Tail(body))

\* The handler from its call to its first await (line 83)
Prologue(handler, args) == ExecBody(BindArgs(handler.params, args), handler.body)

\* --------------------------------------------------------------- state

NoFrame == [locals |-> [n \in LocalNames |-> ""], heap |-> [r \in ListRefs |-> <<>>], query |-> <<>>]

IdleCall == [pc |-> "idle", uri |-> <<>>, args |-> <<>>, frame |-> NoFrame, conn |-> 0]

NewConn(opener) == [opener |-> opener, open |-> TRUE, issuers |-> <<>>]

Boot(catalogs) ==
    /\ db \in catalogs
    /\ pc = "start"
    /\ exc = ""
    /\ gconn = 0
    /\ rows = <<>>
    /\ indexes = <<>>
    /\ idx = 0
    /\ table = <<>>
    /\ log = <<>>
    /\ conns = <<>>
    /\ calls = [i \in 1..MaxCalls |-> IdleCall]

Init == Boot(Catalogs)

\* ------------------------------------------------------ get_indexes (33-53)

GetIndexesSwallow(kind) ==
    /\ pc' = "registering"
    /\ idx' = 1
    /\ UNCHANGED <<exc, indexes>>

\* An exception leaves get_indexes, register_resources and main: nothing catches it
GetIndexesRaise(kind) ==
    /\ pc' = "raised"
    /\ exc' = kind
    /\ UNCHANGED <<idx, indexes>>

\* line 44
GetIndexesConnect ==
    /\ pc = "start"
    /\ \/ /\ conns' = Append(conns, NewConn(0))
          /\ gconn' = Len(conns) + 1
          /\ pc' = "gi_fetch"
          /\ UNCHANGED <<exc, idx, indexes>>
       \/ /\ GetIndexesRaise("connect")
          /\ UNCHANGED <<conns, gconn>>
    /\ UNCHANGED <<db, rows, table, log, calls>>

\* line 46
GetIndexesFetch ==
    /\ pc = "gi_fetch"
    /\ conns' = [conns EXCEPT ![gconn].issuers = Append(@, 0)]
    /\ \/ /\ rows' = db
          /\ pc' = "gi_close"
          /\ UNCHANGED <<exc, idx, indexes>>
       \/ /\ GetIndexesRaise("query")
          /\ UNCHANGED rows
    /\ UNCHANGED <<db, gconn, table, log, calls>>

\* lines 47-53, and the return into register_resources (line 106)
GetIndexesClose ==
    /\ pc = "gi_close"
    /\ conns' = [conns EXCEPT ![gconn].open = FALSE]
    /\ indexes' = [i \in 1..Len(rows) |-> IndexInfo(rows[i])]
    /\ idx' = 1
    /\ pc' = "registering"
    /\ UNCHANGED <<db, exc, gconn, rows, table, log, calls>>

\* ----------------------------------------------- register_resources (97-115)

CurrentPosBackwards == Len(indexes) + 1 - idx

\* line 107: the loop visits the descriptors in list order
CurrentPos == idx

\* mcp.resource(template)(handler): the table keeps one handler per template
Registered(tbl, template, handler) ==
    [t \in DOMAIN tbl \cup {template} |-> IF t = template THEN handler ELSE tbl[t]]

\* lines 107-115: one iteration of the loop
RegisterResource ==
    /\ pc = "registering"
    /\ idx <= Len(indexes)
    /\ LET index     == indexes[CurrentPos]
           template  == Template(index)
           func_code == FuncCode(index.on, index.keys)
       IN  \/ /\ Compiles(func_code)
              /\ table' = Registered(table, template, HandlerFunc(func_code, CurrentPos))
              /\ log' = Append(log, template)
              /\ idx' = idx + 1
              /\ UNCHANGED <<pc, exc>>
           \/ /\ ~Compiles(func_code)
              /\ pc' = "raised"
              /\ exc' = "syntax"
              /\ UNCHANGED <<table, log, idx>>
    /\ UNCHANGED <<db, gconn, rows, indexes, conns, calls>>

\* ------------------------------------------------------------ main (117-125)

LoopDoneEarly == idx > 1 \/ idx > Len(indexes)

\* line 107: the loop has visited every descriptor
LoopDone == idx > Len(indexes)

\* line 125: register_resources has returned, the server starts serving
RunStdio ==
    /\ pc = "registering"
    /\ LoopDone
    /\ pc' = "serving"
    /\ UNCHANGED <<db, exc, gconn, rows, indexes, idx, table, log, conns, calls>>

\* ------------------------------------- a lookup: the generated handler (74-86)

ConnOfShared(i) == Len(conns)

\* the handler's local `conn`
ConnOf(i) == calls[i].conn

Finished(outcome) == [IdleCall EXCEPT !.pc = outcome]

LookupRaiseCrash(i) ==
    /\ calls' = [calls EXCEPT ![i] = Finished("raised")]
    /\ pc' = "raised"

\* An exception leaves the handler: the invocation fails, its frame is gone
LookupRaise(i) ==
    /\ calls' = [calls EXCEPT ![i] = Finished("raised")]
    /\ pc' = pc

\* The server calls the handler registered under template t; the handler runs
\* to its first await (lines 74-83). Invocations are numbered in arrival order.
Invoke(i, t, args) ==
    /\ pc = "serving"
    /\ calls[i].pc = "idle"
    /\ \A j \in 1..(i - 1) : calls[j].pc # "idle"
    /\ calls' = [calls EXCEPT ![i] =
                    [pc |-> "connect", uri |-> t, args |-> args,
                     frame |-> Prologue(table[t], args), conn |-> 0]]
    /\ UNCHANGED <<db, pc, exc, gconn, rows, indexes, idx, table, log, conns>>

\* line 83
LookupConnect(i) ==
    /\ pc = "serving"
    /\ calls[i].pc = "connect"
    /\ \/ /\ conns' = Append(conns, NewConn(i))
          /\ calls' = [calls EXCEPT ![i].pc = "fetch", ![i].conn = Len(conns) + 1]
          /\ pc' = pc
       \/ /\ LookupRaise(i)
          /\ UNCHANGED conns
    /\ UNCHANGED <<db, exc, gconn, rows, indexes, idx, table, log>>

\* line 84
LookupFetch(i) ==
    /\ pc = "serving"
    /\ calls[i].pc = "fetch"
    /\ conns' = [conns EXCEPT ![ConnOf(i)].issuers = Append(@, i)]
    /\ \/ /\ calls' = [calls EXCEPT ![i].pc = "close"]
          /\ pc' = pc
       \/ LookupRaise(i)
    /\ UNCHANGED <<db, exc, gconn, rows, indexes, idx, table, log>>

\* lines 85-86
LookupClose(i) ==
    /\ pc = "serving"
    /\ calls[i].pc = "close"
    /\ conns' = [conns EXCEPT ![ConnOf(i)].open = FALSE]
    /\ calls' = [calls EXCEPT ![i] = Finished("returned")]
    /\ UNCHANGED <<db, pc, exc, gconn, rows, indexes, idx, table, log>>

LookupStep(i) == LookupConnect(i) \/ LookupFetch(i) \/ LookupClose(i)

\* The startup task of main()
Startup ==
    \/ GetIndexesConnect
    \/ GetIndexesFetch
    \/ GetIndexesClose
    \/ RegisterResource
    \/ RunStdio

Next ==
    \/ Startup
    \/ \E i \in 1..MaxCalls : \E t \in DOMAIN table :
          \E args \in [1..Len(table[t].params) -> Values] : Invoke(i, t, args)
    \/ \E i \in 1..MaxCalls : LookupConnect(i)
    \/ \E i \in 1..MaxCalls : LookupFetch(i)
    \/ \E i \in 1..MaxCalls : LookupClose(i)

Spec == Init /\ [][Next]_vars

\* One index of any shape in the catalog, one client that sends one lookup
BinderInit == Boot(OneIndexCatalogs)

BinderNext ==
    \/ Startup
    \/ \E t \in DOMAIN table :
          \E args \in [1..Len(table[t].params) -> Values] : Invoke(1, t, args)
    \/ LookupConnect(1)
    \/ LookupFetch(1)
    \/ LookupClose(1)

BinderSpec == BinderInit /\ [][BinderNext]_vars

\* ================================================================ properties

InFlight(i) == calls[i].pc \in {"connect", "fetch", "close"}
Done(i) == calls[i].pc \in {"returned", "raised"}
OpenedBy(o) == {c \in 1..Len(conns) : conns[c].opener = o}
QueriesBy(o) ==
    {<<c, k>> \in (1..Len(conns)) \X (1..MaxCalls + 1) :
        k <= Len(conns[c].issuers) /\ conns[c].issuers[k] = o}

\* the descriptor the handler registered under template t was built from
DescriptorOf(t) == indexes[table[t].id]

RECURSIVE ExpectedWhere(_, _)
\* k1 = $1 AND ... AND kn = $n
ExpectedWhere(keys, n) ==
    IF n = 0 THEN <<>>
    ELSE IF n = 1 THEN <<keys[1], " = $", "1">>
    ELSE ExpectedWhere(keys, n - 1) \o <<" AND ", keys[n], " = $", ToString(n)>>

RECURSIVE ExpectedSegments(_, _)
\* /{k1}/{k2}/.../{kn}
ExpectedSegments(keys, n) ==
    IF n = 0 THEN <<>>
    ELSE ExpectedSegments(keys, n - 1) \o <<"/", "{", keys[n], "}">>

RECURSIVE Placeholders(_)
\* the names between "{" and "}" of a template, in order
Placeholders(t) ==
    IF Len(t) < 3 THEN <<>>
    ELSE IF t[1] = "{" /\ t[3] = "}" THEN <<t[2]>> \o Placeholders(SubSeq(t, 4, Len(t)))
    ELSE Placeholders(Tail(t))

\* line 84: the arguments conn.fetch receives after the query text
BoundParams(f) == f.heap[f.locals["values"]]

\* C1: a lookup that has issued its query has issued exactly one, with the text
\* SELECT * FROM s WHERE k1 = $1 AND ... AND kn = $n, and with the call's values,
\* in key order, as its bound parameters.
C1_ParameterizedQuery ==
    \A i \in 1..MaxCalls :
        calls[i].pc = "close" =>
            LET d == DescriptorOf(calls[i].uri)
            IN  /\ calls[i].frame.query =
                     <<"SELECT * FROM ", d.on, " WHERE ">> \o ExpectedWhere(d.keys, Len(d.keys))
                /\ BoundParams(calls[i].frame) = [k \in 1..Len(d.keys) |-> <<calls[i].args[k]>>]
                /\ conns[calls[i].conn].issuers = <<i>>

\* C2 as claimed: every registered template is the subject followed by one
\* placeholder segment per key, in key order.
C2_TemplateIsSubjectThenKeys ==
    \A k \in 1..Len(log) :
        log[k] = <<indexes[k].on>> \o ExpectedSegments(indexes[k].keys, Len(indexes[k].keys))

\* C2 as amended: every registered template is "materialize://", then the
\* subject, then one placeholder segment per key, in key order; and it is the
\* name the operation is registered under.
C2_TemplateIsSchemeSubjectThenKeys ==
    \A k \in 1..Len(log) :
        /\ log[k] = <<"materialize://", indexes[k].on>>
                        \o ExpectedSegments(indexes[k].keys, Len(indexes[k].keys))
        /\ log[k] \in DOMAIN table

C2_Witness ==
    \E k \in 1..Len(log) : Len(indexes[k].keys) >= 2 /\ log[k] \in DOMAIN table

AllRegistered ==
    /\ indexes = [k \in 1..Len(db) |-> IndexInfo(db[k])]
    /\ Len(log) = Len(indexes)
    /\ \A k \in 1..Len(indexes) : Template(indexes[k]) \in DOMAIN table

\* C4: the server starts serving only once the catalog fetch has returned and
\* one registration has been made for each descriptor; the table is empty until
\* registration starts and never changes once serving has begun.
C4_RegisterThenServe ==
    [][ /\ (pc' = "serving" => AllRegistered')
        /\ (pc \in {"start", "gi_fetch", "gi_close"} => table = <<>>)
        /\ (pc = "serving" => table' = table /\ pc' = "serving") ]_vars

C4_Witness ==
    /\ pc = "serving"
    /\ Len(indexes) >= 2
    /\ \E i \in 1..MaxCalls : Done(i)

\* C5: a failed connection attempt or catalog query ends main with that
\* exception: nothing was returned or registered, get_indexes connected and
\* queried at most once, and the server serves only if both succeeded.
C5_CatalogFailureIsFatal ==
    /\ (pc = "raised" /\ exc \in {"connect", "query"} =>
            /\ indexes = <<>>
            /\ table = <<>>
            /\ log = <<>>
            /\ \A i \in 1..MaxCalls : calls[i].pc = "idle")
    /\ Cardinality(OpenedBy(0)) <= 1
    /\ Cardinality(QueriesBy(0)) <= 1
    /\ (pc \in {"registering", "serving"} =>
            /\ gconn \in OpenedBy(0)
            /\ conns[gconn].issuers = <<0>>
            /\ rows = db)
    /\ (pc \in {"start", "gi_fetch"} => exc = "")
    /\ (pc \notin {"start", "gi_fetch", "gi_close", "registering", "serving"} =>
            pc = "raised" /\ exc # "")

C5_Witness ==
    /\ pc = "raised"
    /\ exc = "query"
    /\ Len(db) > 0

\* C6: once get_indexes has returned or raised, it has opened one connection,
\* issued one query on it, and the connection is closed.
C6_CatalogConnectionReleased ==
    (pc \notin {"start", "gi_fetch", "gi_close"}) =>
        /\ Cardinality(OpenedBy(0)) <= 1
        /\ Cardinality(QueriesBy(0)) <= 1
        /\ \A c \in OpenedBy(0) : ~conns[c].open

\* C7: every connection a lookup uses is one it opened itself, and when no
\* lookup is running no connection opened by a lookup is open.
C7_LookupConnectionsClosed ==
    /\ \A i \in 1..MaxCalls : calls[i].conn # 0 => calls[i].conn \in OpenedBy(i)
    /\ ((\A i \in 1..MaxCalls : ~InFlight(i)) =>
            \A c \in 1..Len(conns) : conns[c].opener # 0 => ~conns[c].open)

\* the last position of the catalog whose descriptor derives template t
LastDeriving(t) ==
    CHOOSE k \in 1..Len(indexes) :
        /\ Template(indexes[k]) = t
        /\ \A j \in (k + 1)..Len(indexes) : Template(indexes[j]) # t

\* C8: after registration each derived name leads to one operation, the one
\* built from the last descriptor of the catalog that derives the name, and
\* registration raises for no reason but a descriptor whose code does not compile.
C8_LastRegistrationWins ==
    /\ (pc = "serving" =>
            /\ \A k \in 1..Len(indexes) : Template(indexes[k]) \in DOMAIN table
            /\ \A t \in DOMAIN table : table[t].id = LastDeriving(t))
    /\ (pc = "raised" /\ exc = "syntax" =>
            ~Compiles(FuncCode(indexes[idx].on, indexes[idx].keys)))

C8_Witness ==
    /\ pc = "serving"
    /\ Len(indexes) >= 2
    /\ Template(indexes[1]) = Template(indexes[2])
    /\ table[Template(indexes[1])].id = 2

\* C9: a running lookup holds a connection it opened itself, no two lookups
\* hold the same connection, and every query on a connection was issued by the
\* invocation that opened it.
C9_ConnectionPerInvocation ==
    /\ \A i \in 1..MaxCalls : calls[i].conn # 0 => calls[i].conn \in OpenedBy(i)
    /\ \A i, j \in 1..MaxCalls :
          i # j /\ calls[i].conn # 0 => calls[i].conn # calls[j].conn
    /\ \A c \in 1..Len(conns) : \A k \in 1..Len(conns[c].issuers) :
          conns[c].issuers[k] = conns[c].opener

C9_Witness ==
    \E i, j \in 1..MaxCalls :
        /\ i # j
        /\ calls[i].pc = "close"
        /\ calls[j].pc = "close"

\* a step in which invocation i fails
Fails(i) == InFlight(i) /\ calls'[i].pc = "raised"

\* C10: a lookup's failure ends that invocation alone: it connected and queried
\* at most once, the server keeps serving the same table, every other
\* invocation is left as it was and can still take its next step.
C10_FailureIsLocal ==
    /\ [](\A i \in 1..MaxCalls :
            /\ Cardinality(OpenedBy(i)) <= 1
            /\ Cardinality(QueriesBy(i)) <= 1
            /\ (InFlight(i) => ENABLED LookupStep(i)))
    /\ [][\A i \in 1..MaxCalls :
            /\ (Fails(i) =>
                    /\ pc' = "serving"
                    /\ table' = table
                    /\ \A j \in 1..MaxCalls : j # i => calls'[j] = calls[j])
            /\ (calls[i].pc = "raised" => calls'[i] = calls[i])]_vars

C10_Witness ==
    \E i, j \in 1..MaxCalls :
        /\ calls[i].pc = "raised"
        /\ calls[j].pc = "returned"
        /\ Cardinality(OpenedBy(j)) = 1
        /\ \E c \in OpenedBy(j) : c > 1 /\ conns[c - 1].opener = i

====
